---- MODULE Spec2Model ----
(***************************************************************************)
(* Model of the Madrid pollution helpers:                                  *)
(*   scripts/pollution_data_cleaning.py  (columns_to_datetime, clean_data, *)
(*                                        create_pollutant_csvs, __main__) *)
(*   notebooks/covid19_pollution_func.py (poincare_plot, traj_matrix_SVD)  *)
(*                                                                         *)
(* A dataframe is a record [index, rows]: the row labels and, in the same  *)
(* order, the rows.  A row is a function from column names to cell values. *)
(***************************************************************************)
EXTENDS Integers, Sequences, FiniteSets, TLC

VARIABLES prog, pc, argv, stdout, calls, raw, df, clean_df, exc, fs, args, ax, ret

vars == <<prog, pc, argv, stdout, calls, raw, df, clean_df, exc, fs, args, ax, ret>>

\* ---------------------------------------------------------------- bounds
MaxFiles == 2      \* csv paths given on the command line
MaxRows == 2       \* raw rows held by the csv files of one run, all together
MaxLen == 4        \* length of the series given to traj_matrix_SVD

\* ------------------------------------------------------- generic helpers
Range(s) == {s[i] : i \in 1..Len(s)}

SeqsUpTo(S, n) == UNION {[1..k -> S] : k \in 0..n}

RECURSIVE Concat(_)
Concat(ss) == IF ss = <<>> THEN <<>> ELSE Head(ss) \o Concat(Tail(ss))

\* f itself, as a table of its values: TLC evaluates a function written
\* [x \in S |-> e] anew at every application, and a table once
Table(f) == f @@ <<>>

\* ------------------------------------------------------------ dataframes
NoneValue == "None"
nan == -1            \* missing value of a numeric cell (concentrations are >= 0)
nan_name == "nan"    \* missing value of a cell of the contaminante column

EmptyFrame == [index |-> <<>>, rows |-> <<>>]

RangeIndex(n) == Table([i \in 1..n |-> i - 1])

\* pd.read_csv: the rows of a file, labelled 0..n-1
read_csv(rows) == [index |-> RangeIndex(Len(rows)), rows |-> rows]

\* pd.concat: labels and rows one after the other, labels kept as they are
RECURSIVE concat(_)
concat(frames) ==
    IF frames = <<>> THEN EmptyFrame
    ELSE LET rest == concat(Tail(frames))
         IN [index |-> Head(frames).index \o rest.index,
             rows  |-> Head(frames).rows \o rest.rows]

\* the labels left as they are
reset_index_keep(d) == d

\* DataFrame.reset_index(drop=True)
reset_index(d) == [index |-> RangeIndex(Len(d.rows)), rows |-> d.rows]

\* the rows of d at the positions at names, in this order, labels with them
Take(d, at) ==
    [index |-> Table([k \in 1..Len(at) |-> d.index[at[k]]]),
     rows  |-> Table([k \in 1..Len(at) |-> d.rows[at[k]]])]

\* d with the rows given in place of its own, labels kept
WithRows(d, rows) == [index |-> d.index, rows |-> Table(rows)]

\* d[mask]: the rows at the positions of the set keep, in their order
Filter(d, keep) ==
    LET Kept(i) == i \in keep
    IN Take(d, SelectSeq([i \in 1..Len(d.rows) |-> i], Kept))

\* DataFrame.drop(columns=...)
drop_columns(d, cols) ==
    WithRows(d, [i \in 1..Len(d.rows) |->
        Table([c \in (DOMAIN d.rows[i]) \ cols |-> d.rows[i][c]])])

\* DataFrame.drop(index=labels): every row carrying one of the labels goes
drop_index(d, labels) ==
    Filter(d, {i \in 1..Len(d.rows) : d.index[i] \notin labels})

\* df[columns]
project(d, cols) ==
    WithRows(d, [i \in 1..Len(d.rows) |-> Table([c \in cols |-> d.rows[i][c]])])

\* df[name] = values, a value for each row
assign(d, name, values) ==
    WithRows(d, [i \in 1..Len(d.rows) |->
        Table([c \in (DOMAIN d.rows[i]) \cup {name} |->
            IF c = name THEN values[i] ELSE d.rows[i][c]])])

\* DataFrame.rename(columns={old: new})
rename(d, old, new) ==
    WithRows(d, [i \in 1..Len(d.rows) |->
        Table([c \in ((DOMAIN d.rows[i]) \ {old}) \cup {new} |->
            IF c = new THEN d.rows[i][old] ELSE d.rows[i][c]])])

\* ------------------------------------------------------- column names
\* line 14: 'h01' .. 'h24'
hours == <<"h01", "h02", "h03", "h04", "h05", "h06", "h07", "h08",
           "h09", "h10", "h11", "h12", "h13", "h14", "h15", "h16",
           "h17", "h18", "h19", "h20", "h21", "h22", "h23", "h24">>

\* line 65: 'v01' .. 'v24'
validation_columns == {"v01", "v02", "v03", "v04", "v05", "v06", "v07", "v08",
                       "v09", "v10", "v11", "v12", "v13", "v14", "v15", "v16",
                       "v17", "v18", "v19", "v20", "v21", "v22", "v23", "v24"}

upper_hours == <<"H01", "H02", "H03", "H04", "H05", "H06", "H07", "H08",
                 "H09", "H10", "H11", "H12", "H13", "H14", "H15", "H16",
                 "H17", "H18", "H19", "H20", "H21", "H22", "H23", "H24">>

upper_validation == <<"V01", "V02", "V03", "V04", "V05", "V06", "V07", "V08",
                      "V09", "V10", "V11", "V12", "V13", "V14", "V15", "V16",
                      "V17", "V18", "V19", "V20", "V21", "V22", "V23", "V24">>

validation_seq == <<"v01", "v02", "v03", "v04", "v05", "v06", "v07", "v08",
                    "v09", "v10", "v11", "v12", "v13", "v14", "v15", "v16",
                    "v17", "v18", "v19", "v20", "v21", "v22", "v23", "v24">>

HourColumns == Range(hours)

\* the columns of the csv export, as the file names them
CsvColumns == {"PROVINCIA", "MUNICIPIO", "ESTACION", "MAGNITUD", "PUNTO_MUESTREO",
               "ANO", "MES", "DIA"} \cup Range(upper_hours) \cup Range(upper_validation)

\* str.lower on a column name of the export
lower(c) ==
    CASE c = "ESTACION" -> "estacion"
      [] c = "MAGNITUD" -> "magnitud"
      [] c = "ANO" -> "ano"
      [] c = "MES" -> "mes"
      [] c = "DIA" -> "dia"
      [] c = "PROVINCIA" -> "provincia"
      [] c = "MUNICIPIO" -> "municipio"
      [] c = "PUNTO_MUESTREO" -> "punto_muestreo"
      [] c \in Range(upper_hours) -> hours[CHOOSE i \in 1..Len(hours) : upper_hours[i] = c]
      [] c \in Range(upper_validation) ->
            validation_seq[CHOOSE i \in 1..Len(validation_seq) : upper_validation[i] = c]
      [] OTHER -> c

\* the export's column names in lower case, and the name each comes from
lower_of == Table([u \in CsvColumns |-> lower(u)])
upper_of == Table([c \in {lower_of[u] : u \in CsvColumns} |->
                      CHOOSE u \in CsvColumns : lower_of[u] = c])

\* df.columns = df.columns.str.lower()
lower_columns(d) ==
    WithRows(d, [i \in 1..Len(d.rows) |->
        Table([c \in {lower_of[u] : u \in DOMAIN d.rows[i]} |-> d.rows[i][upper_of[c]]])])

\* ---------------------------------------------------------- dates, times
\* fechas_str = anios + '-' + meses + '-' + dias: the three fields, in this order
fechas_str(r) == <<r["ano"], r["mes"], r["dia"]>>

\* pd.to_datetime(..., yearfirst=True): midnight of the day the fields name
to_datetime(s) == [year |-> s[1], month |-> s[2], day |-> s[3], hour |-> 0]

\* datetime.datetime(year, month, day, hour)
datetime(year, month, day, hour) ==
    [year |-> year, month |-> month, day |-> day, hour |-> hour]

\* the place of a timestamp in time: hours counted on a calendar of 12 months
\* of 31 days, which orders timestamps as time does
DtKey(t) == ((t.year * 12 + (t.month - 1)) * 31 + (t.day - 1)) * 24 + t.hour

\* the positions of d in the order of their dt; equal dt keep their order
SortPos(d) ==
    LET n   == Len(d.rows)
        key == Table([i \in 1..n |-> DtKey(d.rows[i]["dt"])])
        rank == Table([i \in 1..n |->
                    Cardinality({j \in 1..n : key[j] < key[i] \/ (key[j] = key[i] /\ j <= i)})])
    IN Table([p \in 1..n |-> CHOOSE i \in 1..n : rank[i] = p])

\* sorted, and of equal rows only the first kept
sort_values_unique(d) ==
    LET s == SortPos(d)
        First(i) == \A j \in 1..(i - 1) : d.rows[s[j]] # d.rows[s[i]]
        at == SelectSeq([i \in 1..Len(s) |-> i], First)
    IN Take(d, [k \in 1..Len(at) |-> s[at[k]]])

\* DataFrame.sort_values('dt')
sort_values(d) ==
    Take(d, SortPos(d))

\* ------------------------------------------------------ columns_to_datetime
\* the hour as counted, 1..24
hour_of_day_unwrapped(hour) == hour

\* line 27: hour%24
hour_of_day(hour) == hour % 24

\* lines 19-34: the frame of one hour column
df_hour(d, hour) ==
    LET hour_str == hours[hour]
        columns  == {"contaminante", "estacion", "fecha", hour_str}
        frame    == project(d, columns)
        dt       == [i \in 1..Len(frame.rows) |->
                        LET x == frame.rows[i]["fecha"]
                        IN datetime(x.year, x.month, x.day, hour_of_day(hour))]
    IN rename(drop_columns(assign(frame, "dt", dt), {"fecha"}), hour_str, "concentracion")

\* lines 14-39.  The reindex of line 16 orders the columns and leaves every
\* row's cells as they are.  The result is the exception raised ("None": none)
\* and the frame returned.
columns_to_datetime(d) ==
    LET df_hours == Table([h \in 1..Len(hours) |-> df_hour(d, h)])
        new_df   == reset_index(sort_values(concat(df_hours)))
    IN IF Len(new_df.rows) = 24 * Len(d.rows)
       THEN [exc |-> NoneValue, value |-> new_df]
       ELSE [exc |-> "AssertionError", value |-> new_df]

\* --------------------------------------------------------------- clean_data
\* lines 77-83
used == (1 :> "SO2") @@ (6 :> "CO") @@ (8 :> "NO2") @@ (9 :> "PM2.5")
        @@ (10 :> "PM10") @@ (14 :> "O3")

\* the table without code 7
not_used_short == [i \in {12, 20, 30, 35, 42, 43, 44} |-> nan_name]

\* line 85
not_used == [i \in {7, 12, 20, 30, 35, 42, 43, 44} |-> nan_name]

\* the unused codes given a name instead of a missing value
pollutants_dict_all_named == used @@ [i \in DOMAIN not_used |-> "NO"]

\* line 86: {**used, **not_used}, the later table winning
pollutants_dict == not_used @@ used

\* a cell that holds a missing value
isna(c, v) ==
    IF c = "contaminante" THEN v = nan_name
    ELSE IF c \in HourColumns THEN v = nan
    ELSE FALSE

\* DataFrame.dropna(): the rows with no missing cell
dropna(d) ==
    Filter(d, {i \in 1..Len(d.rows) : \A c \in DOMAIN d.rows[i] : ~isna(c, d.rows[i][c])})

\* lines 96-97: the labels of station 54, and the rows with these labels dropped
drop_LaGuardia(d) ==
    LET LaGuardia == Filter(d, {i \in 1..Len(d.rows) : d.rows[i]["estacion"] = 54}).index
    IN drop_index(d, Range(LaGuardia))

\* lines 56-105; csv_list holds, for each path, the rows of that file.
clean_data(csv_list) ==
    IF csv_list = <<>>
    THEN \* pd.concat of an empty list: "No objects to concatenate"
         [exc |-> "ValueError", df |-> EmptyFrame, clean_df |-> EmptyFrame]
    ELSE
      LET dfs == Table([i \in 1..Len(csv_list) |-> read_csv(csv_list[i])])
          d1  == drop_columns(concat(dfs), {"PUNTO_MUESTREO", "PROVINCIA", "MUNICIPIO"})
          d2  == drop_columns(lower_columns(d1), validation_columns)
          fechas == [i \in 1..Len(d2.rows) |-> to_datetime(fechas_str(d2.rows[i]))]
          d3  == drop_columns(assign(d2, "fecha", fechas), {"ano", "mes", "dia"})
      IN IF \E i \in 1..Len(d3.rows) : d3.rows[i]["magnitud"] \notin DOMAIN pollutants_dict
         THEN \* line 88: pollutants_dict[x] on a code the table lacks
              [exc |-> "KeyError", df |-> EmptyFrame, clean_df |-> EmptyFrame]
         ELSE
           LET names == [i \in 1..Len(d3.rows) |-> pollutants_dict[d3.rows[i]["magnitud"]]]
               d4 == drop_columns(assign(d3, "contaminante", names), {"magnitud"})
               d5 == reset_index(dropna(d4))
               d6 == reset_index(drop_LaGuardia(d5))
               res == columns_to_datetime(d6)
           IN [exc |-> res.exc, df |-> d6, clean_df |-> res.value]

\* ---------------------------------------------------- create_pollutant_csvs
\* Series.unique(): the values in the order they first appear
unique(s) ==
    LET First(i) == \A j \in 1..(i - 1) : s[j] # s[i]
        at == SelectSeq([i \in 1..Len(s) |-> i], First)
    IN Table([k \in 1..Len(at) |-> s[at[k]]])

column(d, c) == Table([i \in 1..Len(d.rows) |-> d.rows[i][c]])

\* DataFrame.set_index(col): the column becomes the labels
set_index(d, c) ==
    [index |-> column(d, c), rows |-> drop_columns(d, {c}).rows, index_name |-> c]

\* the year of the last record
year_of_last(d) == d.rows[Len(d.rows)]["dt"].year

\* line 121: clean_df['dt'].dt.year.unique()[0]
year_of(d) == unique(Table([i \in 1..Len(d.rows) |-> d.rows[i]["dt"].year]))[1]

\* the pollutant column kept
pollut_df_with_name(d, pollutant) ==
    set_index(Filter(d, {i \in 1..Len(d.rows) : d.rows[i]["contaminante"] = pollutant}), "dt")

\* lines 125-127
pollut_df(d, pollutant) ==
    LET mask == {i \in 1..Len(d.rows) : d.rows[i]["contaminante"] = pollutant}
    IN set_index(drop_columns(Filter(d, mask), {"contaminante"}), "dt")

\* line 128: join(save_dir, f'{pollutant}-{year}.csv')
save_path(save_dir, pollutant, year) ==
    [dir |-> save_dir, pollutant |-> pollutant, year |-> year, ext |-> ".csv"]

\* line 130: DataFrame.to_csv writes the labels under the name of the index,
\* then every column; a file already at the path is replaced
to_csv(files, path, d) ==
    {f \in files : f.path # path}
        \cup {[path |-> path, index_label |-> d.index_name, index |-> d.index, rows |-> d.rows]}

RECURSIVE write_all(_, _, _, _, _)
write_all(files, d, pollutants, year, save_dir) ==
    IF pollutants = <<>> THEN files
    ELSE write_all(to_csv(files, save_path(save_dir, Head(pollutants), year),
                          pollut_df(d, Head(pollutants))),
                   d, Tail(pollutants), year, save_dir)

\* lines 121-130: the files on disk after the call
create_pollutant_csvs(files, d, save_dir) ==
    write_all(files, d, unique(column(d, "contaminante")), year_of(d), save_dir)

\* ------------------------------------------------------------ poincare_plot
\* round(x, 2) of a value held in thousandths: the nearest hundredth, ties to even
round2(x) ==
    LET q == x \div 10
        r == x % 10
    IN IF r < 5 THEN 10 * q
       ELSE IF r > 5 THEN 10 * (q + 1)
       ELSE IF q % 2 = 0 THEN 10 * q ELSE 10 * (q + 1)

IsNone(v) == v.kind = "None"

NoAxes == <<>>

\* lines 53-57 / 61-65 of the notebook module: the two lines of one panel
panel_lines(orig, params) ==
    LET b0 == params.items[1]
        b1 == params.items[2]
    IN << [color |-> "red",
           x |-> orig, y |-> [i \in 1..Len(orig) |-> b0 + b1 * orig[i]],
           label |-> <<round2(b0), round2(b1)>>],
          [color |-> "orange", x |-> orig, y |-> orig, label |-> <<>>] >>

panel(points, params, title) ==
    LET orig  == [i \in 1..Len(points) |-> points[i][1]]
        shift == [i \in 1..Len(points) |-> points[i][2]]
    IN [scatter |-> [x |-> orig, y |-> shift],
        lines   |-> IF ~IsNone(params) THEN panel_lines(orig, params) ELSE <<>>,
        legend  |-> ~IsNone(params),
        title   |-> title,
        xlabel  |-> "x_n",
        ylabel  |-> "x_{n+1}"]

\* notebooks/covid19_pollution_func.py lines 6-73 (scripts/ lines 1-69 are the
\* same statements).  Lines 31-32 unpack both parameters before anything is
\* drawn: unpacking None raises TypeError.
poincare_plot(a) ==
    IF IsNone(a.reg_params_bf) \/ IsNone(a.reg_params_aft)
    THEN [exc |-> "TypeError", ax |-> NoAxes]
    ELSE [exc |-> NoneValue,
          ax  |-> << panel(a.bf, a.reg_params_bf, a.bf_title),
                     panel(a.aft, a.reg_params_aft, a.aft_title) >>]

\* ---------------------------------------------------------- traj_matrix_SVD
Min(a, b) == IF a < b THEN a ELSE b
Max(a, b) == IF a < b THEN b ELSE a

\* X[lo:hi] for 0 <= lo <= hi
Slice(X, lo, hi) == SubSeq(X, Min(lo, Len(X)) + 1, Min(hi, Len(X)))

\* np.array(list of rows).shape
array_shape(rows) ==
    IF rows = <<>> THEN <<0>> ELSE <<Len(rows), Len(rows[1])>>

\* ndarray.T: the axes reversed; an array of one axis is left as it is
transpose(rows, shape) ==
    IF Len(shape) = 1 THEN [shape |-> shape, rows |-> rows]
    ELSE [shape |-> <<shape[2], shape[1]>>,
          rows  |-> [r \in 1..shape[2] |-> [c \in 1..shape[1] |-> rows[c][r]]]]

\* lines 124-136.  The decomposition itself is numpy's; of its results the
\* shapes are kept.
traj_matrix_SVD(X, window) ==
    LET col == Len(X) - window
        A0  == [i \in 1..Max(col, 0) |-> Slice(X, i - 1, i - 1 + window)]
        A   == transpose(A0, array_shape(A0))
    IN IF A.shape # <<window, col>>
       THEN [exc |-> "AssertionError", A |-> A, U |-> <<>>, S |-> <<>>, V |-> <<>>]
       ELSE [exc |-> NoneValue, A |-> A,
             U |-> <<window, window>>, S |-> <<Min(window, col), 1>>, V |-> <<col, col>>]

\* ------------------------------------------------------------------ inputs
Stations == {4, 54}
Magnitudes == {8, 14, 7, 2}
Date2019 == [ano |-> 2019, mes |-> 12, dia |-> 31]
Date2020 == [ano |-> 2020, mes |-> 1, dia |-> 1]

\* the 24 hourly values of a row: hour h reads h; in the second, h24 is missing
FullDay == [h \in 1..24 |-> h]
GapDay  == [h \in 1..24 |-> IF h = 24 THEN nan ELSE h]

CsvRow(estacion, magnitud, date, values) ==
    Table([c \in CsvColumns |->
        CASE c = "PROVINCIA" -> 28
          [] c = "MUNICIPIO" -> 79
          [] c = "ESTACION" -> estacion
          [] c = "MAGNITUD" -> magnitud
          [] c = "PUNTO_MUESTREO" -> "28079"
          [] c = "ANO" -> date.ano
          [] c = "MES" -> date.mes
          [] c = "DIA" -> date.dia
          [] c \in Range(upper_hours) ->
                values[CHOOSE i \in 1..Len(upper_hours) : upper_hours[i] = c]
          [] OTHER -> "V"])

CsvRows ==
    {CsvRow(e, m, Date2019, FullDay) : e \in Stations, m \in Magnitudes}
        \cup {CsvRow(4, 8, Date2020, FullDay), CsvRow(4, 8, Date2019, GapDay)}

\* rows cut into n files at the places cuts names
Split(rows, cuts, n) ==
    [i \in 1..n |->
        SubSeq(rows, (IF i = 1 THEN 0 ELSE cuts[i - 1]) + 1,
                     IF i = n THEN Len(rows) ELSE cuts[i])]

\* the places where k rows can be cut into n files
Cuts(n, k) ==
    {c \in [1..(n - 1) -> 0..k] : \A i \in 1..(n - 1) : (i > 1 => c[i - 1] <= c[i])}

\* what n csv files can hold: at most MaxRows rows all together
CsvContents(n) ==
    IF n = 0 THEN {<<>>}
    ELSE UNION {{Split(rows, cuts, n) : cuts \in Cuts(n, Len(rows))} :
                    rows \in SeqsUpTo(CsvRows, MaxRows)}

SaveDirs == {"out"}

Arrays == { << <<1, 2>>, <<2, 3>>, <<3, 1>> >>, << <<5, 5>> >>, <<>> }
RegParams == {[kind |-> "None"]}
                 \cup {[kind |-> "tuple", items |-> <<b0, b1>>] : b0 \in {125, -15}, b1 \in {996}}
Titles == {NoneValue, "2019"}

usage == "As arguments you must give the paths of the unprocessed csv files."
prompt == "Write the path to the directory where the files will be saved."

\* ------------------------------------------------------------ state machine
Idle ==
    /\ stdout = <<>> /\ calls = <<>> /\ raw = <<>>
    /\ df = EmptyFrame /\ clean_df = EmptyFrame
    /\ exc = NoneValue /\ fs = {} /\ ax = NoAxes /\ ret = NoneValue

Init ==
    /\ Idle
    /\ \/ /\ prog = "script" /\ pc = "main"
          /\ argv \in {<<0>> \o [i \in 1..n |-> i] : n \in 0..MaxFiles}
          /\ args = NoneValue
       \/ /\ prog = "poincare_plot" /\ pc = "call"
          /\ argv = <<>>
          /\ args \in [bf : Arrays, aft : Arrays,
                       reg_params_bf : RegParams, reg_params_aft : RegParams,
                       bf_title : Titles, aft_title : {NoneValue}]
       \/ /\ prog = "traj_matrix_SVD" /\ pc = "call"
          /\ argv = <<>>
          /\ args \in [X : SeqsUpTo({0, 1}, MaxLen), window : 1..(MaxLen + 1)]

\* lines 134-138: the usage message; line 138 names exit and does not call it
Main ==
    /\ prog = "script" /\ pc = "main"
    /\ stdout' = IF Len(argv) < 2 THEN Append(stdout, usage) ELSE stdout
    /\ pc' = "clean_data"
    /\ UNCHANGED <<prog, argv, calls, raw, df, clean_df, exc, fs, args, ax, ret>>

\* line 140: clean_data(argv[1:]), the files holding what the run reads
CleanData ==
    /\ prog = "script" /\ pc = "clean_data"
    /\ \E csvs \in CsvContents(Len(argv) - 1) :
         LET r == clean_data(csvs)
         IN /\ raw' = csvs
            /\ exc' = r.exc
            /\ df' = r.df
            /\ clean_df' = r.clean_df
            /\ pc' = IF r.exc = NoneValue THEN "create_pollutant_csvs" ELSE "raised"
    /\ calls' = Append(calls, "clean_data")
    /\ UNCHANGED <<prog, argv, stdout, fs, args, ax, ret>>

\* line 141: create_pollutant_csvs(clean_df).  Line 121 reads the first year
\* before the prompt of line 122: IndexError on a frame with no record.
CreatePollutantCsvs ==
    /\ prog = "script" /\ pc = "create_pollutant_csvs"
    /\ calls' = Append(calls, "create_pollutant_csvs")
    /\ IF clean_df.rows = <<>>
       THEN /\ exc' = "IndexError"
            /\ pc' = "raised"
            /\ UNCHANGED <<stdout, fs>>
       ELSE /\ \E save_dir \in SaveDirs :
                 fs' = create_pollutant_csvs(fs, clean_df, save_dir)
            /\ stdout' = Append(stdout, prompt)
            /\ pc' = "exit"
            /\ UNCHANGED exc
    /\ UNCHANGED <<prog, argv, raw, df, clean_df, args, ax, ret>>

PoincarePlot ==
    /\ prog = "poincare_plot" /\ pc = "call"
    /\ LET r == poincare_plot(args)
       IN /\ exc' = r.exc
          /\ ax' = r.ax
          /\ pc' = IF r.exc = NoneValue THEN "returned" ELSE "raised"
    /\ calls' = Append(calls, "poincare_plot")
    /\ UNCHANGED <<prog, argv, stdout, raw, df, clean_df, fs, args, ret>>

TrajMatrixSVD ==
    /\ prog = "traj_matrix_SVD" /\ pc = "call"
    /\ LET r == traj_matrix_SVD(args.X, args.window)
       IN /\ exc' = r.exc
          /\ ret' = r
          /\ pc' = IF r.exc = NoneValue THEN "returned" ELSE "raised"
    /\ calls' = Append(calls, "traj_matrix_SVD")
    /\ UNCHANGED <<prog, argv, stdout, raw, df, clean_df, fs, args, ax>>

Next == Main \/ CleanData \/ CreatePollutantCsvs \/ PoincarePlot \/ TrajMatrixSVD

Spec == Init /\ [][Next]_vars

\* ------------------------------------------------------------ the claims
\* the rows the run read, file after file
RawRows == Concat(raw)

KnownCodes == {1, 6, 8, 9, 10, 14}
PollutantNames == {"SO2", "CO", "NO2", "PM2.5", "PM10", "O3"}
UnusedCodes == {7, 12, 20, 30, 35, 42, 43, 44}

Complete(r) == \A h \in 1..24 : r[upper_hours[h]] # nan

\* clean_data was called and raised
CleanDataRaised == prog = "script" /\ Len(calls) = 1 /\ pc = "raised"

\* clean_data was called and returned
CleanDataReturned == prog = "script" /\ calls # <<>> /\ ~CleanDataRaised

\* clean_data was called and reached its call of columns_to_datetime
ReshapeRan ==
    prog = "script" /\ calls # <<>> /\ ~(CleanDataRaised /\ exc \in {"ValueError", "KeyError"})

Records == clean_df.rows

\* C1: columns_to_datetime returns 24 records for every row of the frame it
\* is given, and its assertion on the record count does not fail, also for a
\* frame with no row and for a frame with equal rows.
C1_RecordCount ==
    ReshapeRan => exc # "AssertionError" /\ Len(clean_df.rows) = 24 * Len(df.rows)

C1_Witness ==
    /\ ReshapeRan
    /\ Len(df.rows) = 2 /\ df.rows[1] = df.rows[2]
    /\ Len(clean_df.rows) = 48

\* C2: the record made from column hNN of a row of date D carries the value of
\* that column and the timestamp D at hour NN mod 24, h24 giving hour 0 of D
\* itself; it is among the records returned, and every record returned has an
\* hour in 0..23.
C2_Timestamps ==
    ReshapeRan =>
        /\ \A k \in 1..Len(Records) : Records[k]["dt"].hour \in 0..23
        /\ \A NN \in 1..24 :
             LET frame == df_hour(df, NN)
             IN \A i \in 1..Len(df.rows) :
                  LET D   == df.rows[i]["fecha"]
                      rec == frame.rows[i]
                  IN /\ rec["dt"] = [year |-> D.year, month |-> D.month,
                                     day |-> D.day, hour |-> NN % 24]
                     /\ NN = 24 => rec["dt"].hour = 0
                     /\ rec["concentracion"] = df.rows[i][hours[NN]]
                     /\ rec \in Range(Records)

C2_Witness ==
    /\ ReshapeRan
    /\ \E k \in 1..Len(Records) :
         /\ Records[k]["concentracion"] = 24
         /\ Records[k]["dt"] = [year |-> 2019, month |-> 12, day |-> 31, hour |-> 0]

\* C3: when clean_data returns, no record has station 54, and every other
\* station keeps 24 records for each of its rows that has a known pollutant
\* code and no missing value.
C3_NoLaGuardia ==
    CleanDataReturned =>
        /\ \A k \in 1..Len(Records) : Records[k]["estacion"] # 54
        /\ \A s \in {RawRows[i]["ESTACION"] : i \in 1..Len(RawRows)} \ {54} :
             Cardinality({k \in 1..Len(Records) : Records[k]["estacion"] = s})
                = 24 * Cardinality({i \in 1..Len(RawRows) :
                                        /\ RawRows[i]["ESTACION"] = s
                                        /\ RawRows[i]["MAGNITUD"] \in KnownCodes
                                        /\ Complete(RawRows[i])})

C3_Witness ==
    /\ CleanDataReturned
    /\ \E i, j \in 1..Len(RawRows) :
         /\ RawRows[i]["ESTACION"] = 54 /\ RawRows[i]["MAGNITUD"] = 8
         /\ RawRows[j]["ESTACION"] = 4 /\ RawRows[j]["MAGNITUD"] = 8 /\ Complete(RawRows[j])
    /\ Len(Records) = 24

\* C4: when clean_data returns, every record is named after one of the six
\* pollutants and comes from a row with the code of that pollutant, and each
\* pollutant has 24 records for each such row kept: a row with another code
\* gives no record.
C4_KnownPollutants ==
    CleanDataReturned =>
        /\ \A k \in 1..Len(Records) :
             /\ Records[k]["contaminante"] \in PollutantNames
             /\ \E i \in 1..Len(RawRows), NN \in 1..24 :
                  LET r == RawRows[i]
                  IN /\ r["MAGNITUD"] \in KnownCodes
                     /\ used[r["MAGNITUD"]] = Records[k]["contaminante"]
                     /\ r["ESTACION"] = Records[k]["estacion"]
                     /\ r[upper_hours[NN]] = Records[k]["concentracion"]
                     /\ Records[k]["dt"] = [year |-> r["ANO"], month |-> r["MES"],
                                            day |-> r["DIA"], hour |-> NN % 24]
        /\ \A name \in PollutantNames :
             Cardinality({k \in 1..Len(Records) : Records[k]["contaminante"] = name})
                = 24 * Cardinality({i \in 1..Len(RawRows) :
                                        /\ RawRows[i]["MAGNITUD"] \in KnownCodes
                                        /\ used[RawRows[i]["MAGNITUD"]] = name
                                        /\ RawRows[i]["ESTACION"] # 54
                                        /\ Complete(RawRows[i])})

C4_Witness ==
    /\ CleanDataReturned
    /\ \E i, j \in 1..Len(RawRows) :
         /\ RawRows[i]["MAGNITUD"] = 7 /\ RawRows[i]["ESTACION"] = 4
         /\ RawRows[j]["MAGNITUD"] = 14 /\ RawRows[j]["ESTACION"] = 4
    /\ Len(Records) = 24
    /\ \A k \in 1..Len(Records) : Records[k]["contaminante"] = "O3"

\* the files of the run without the rows whose code is one of codes
Without(files, codes) ==
    LET Kept(r) == r["MAGNITUD"] \notin codes
    IN [i \in 1..Len(files) |-> SelectSeq(files[i], Kept)]

C6_SingleColumn ==
    \A f \in fs :
        /\ f.index_label = "dt"
        /\ \A i \in 1..Len(f.rows) : DOMAIN f.rows[i] = {"concentracion"}

\* C6, amended: every file is indexed by dt, its labels being timestamps of
\* the records, and has two data columns, the station and the concentration;
\* the pollutant name is not written.
C6_StationAndConcentration ==
    \A f \in fs :
        /\ f.index_label = "dt"
        /\ Len(f.index) = Len(f.rows)
        /\ \A i \in 1..Len(f.rows) :
             /\ DOMAIN f.rows[i] = {"estacion", "concentracion"}
             /\ \E k \in 1..Len(Records) :
                  /\ Records[k]["dt"] = f.index[i]
                  /\ Records[k]["estacion"] = f.rows[i]["estacion"]
                  /\ Records[k]["concentracion"] = f.rows[i]["concentracion"]

C6_Witness ==
    /\ pc = "exit"
    /\ \E f \in fs : Len(f.rows) = 24 /\ f.rows[1]["estacion"] = 4

\* the records of one pollutant, as a file holds them: timestamp, station and
\* concentration, in the order of the frame
FileRecords(f) ==
    [i \in 1..Len(f.rows) |->
        [dt |-> f.index[i], estacion |-> f.rows[i]["estacion"],
         concentracion |-> f.rows[i]["concentracion"]]]

RecordsOf(pollutant, years) ==
    LET Mine(rec) == rec["contaminante"] = pollutant /\ rec["dt"].year \in years
        mine == SelectSeq(Records, Mine)
    IN [i \in 1..Len(mine) |->
        [dt |-> mine[i]["dt"], estacion |-> mine[i]["estacion"],
         concentracion |-> mine[i]["concentracion"]]]

Years == {Records[k]["dt"].year : k \in 1..Len(Records)}
Pollutants == {Records[k]["contaminante"] : k \in 1..Len(Records)}

\* C7, as claimed: one file for each pollutant and year of the frame, named
\* after both, holding the records of that pollutant in that year.
C7_FilePerPollutantAndYear ==
    pc = "exit" =>
        /\ {<<f.path.pollutant, f.path.year>> : f \in fs}
              = {<<Records[k]["contaminante"], Records[k]["dt"].year>> : k \in 1..Len(Records)}
        /\ \A f \in fs : FileRecords(f) = RecordsOf(f.path.pollutant, {f.path.year})

\* C7, amended: given a frame with a record, one file for each pollutant of
\* the frame, named after the pollutant and the year of the frame's first
\* record, holding the records of that pollutant of every year, in their
\* order; given a frame with no record, an error and no file.
C7_FilePerPollutant ==
    /\ (prog = "script" /\ Len(calls) = 2 /\ Records = <<>>) => pc = "raised" /\ fs = {}
    /\ pc = "exit" =>
        /\ Records # <<>>
        /\ Cardinality(fs) = Cardinality(Pollutants)
        /\ {<<f.path.pollutant, f.path.year>> : f \in fs}
              = {<<p, Records[1]["dt"].year>> : p \in Pollutants}
        /\ \A f \in fs :
             /\ f.path.dir \in SaveDirs /\ f.path.ext = ".csv"
             /\ FileRecords(f) = RecordsOf(f.path.pollutant, Years)

C7_Witness ==
    /\ pc = "exit"
    /\ Years = {2019, 2020}
    /\ Cardinality(fs) = 2
    /\ \A f \in fs : f.path.year = 2019 /\ Len(f.rows) = 24

\* C8: poincare_plot given None for the parameters of a panel returns without
\* error, having drawn both scatter plots and no line in that panel.
C8_NoneSkipsLines ==
    (prog = "poincare_plot" /\ pc # "call"
        /\ (IsNone(args.reg_params_bf) \/ IsNone(args.reg_params_aft)))
    => /\ exc = NoneValue
       /\ Len(ax) = 2
       /\ IsNone(args.reg_params_bf) => ax[1].lines = <<>>
       /\ IsNone(args.reg_params_aft) => ax[2].lines = <<>>

\* C9: for 1 <= window <= len(X) the assertion on the shape of the trajectory
\* matrix holds: window rows, len(X) - window columns, X[c + r] at row r and
\* column c.
C9_TrajectoryShape ==
    (prog = "traj_matrix_SVD" /\ pc # "call"
        /\ 1 <= args.window /\ args.window <= Len(args.X))
    => /\ exc = NoneValue
       /\ ret.A.shape = <<args.window, Len(args.X) - args.window>>
       /\ \A r \in 0..(args.window - 1), c \in 0..(Len(args.X) - args.window - 1) :
            ret.A.rows[r + 1][c + 1] = args.X[c + r + 1]

\* C10: run with no path, the script prints the usage message and stops:
\* clean_data is not called and the prompt for the directory is not reached.
C10_UsageStops ==
    (prog = "script" /\ Len(argv) < 2 /\ pc # "main")
    => /\ stdout = <<usage>>
       /\ calls = <<>>

====
